---------------------------- MODULE Spec2Model ----------------------------
(***************************************************************************)
(* A model of the scrapegraphai multi-graph bundle:                        *)
(*   - utils/split_text_into_chunks.py  (the chunker),                     *)
(*   - graphs/smart_scraper_multi_concat_graph.py and                      *)
(*     graphs/document_scraper_multi_graph.py (the two multi graphs and    *)
(*     their run()), executed by the graph engine of the base package,     *)
(*   - utils/cleanup_html.py (cleanup_html).                               *)
(* Strings are sequences of one-character strings.                         *)
(***************************************************************************)
EXTENDS Integers, Sequences, FiniteSets, TLC

VARIABLES
    \* ---- split_text_into_chunks ----
    text,            \* argument text
    chunk_size,      \* argument chunk_size
    use_semchunk,    \* argument use_semchunk
    tokenizer,       \* which size function num_tokens_calculus is
    cpc,             \* position in split_text_into_chunks
    words,           \* text.split()
    widx,            \* index of the next word of the for loop
    chunks,          \* chunks
    current_chunk,   \* current_chunk (a list of words)
    current_length,  \* current_length
    sem_size,        \* chunk_size handed to semchunk.chunk
    \* ---- the multi graphs and the engine that runs them ----
    graph,           \* the BaseGraph built by _create_graph
    source,          \* self.source: the list of items
    state,           \* the State threaded through the run
    gpc,             \* "built", "running", "iterating", "done", "failed"
    current,         \* index in graph.nodes of the node to invoke, 0 for none
    executed,        \* execution info: the nodes invoked, in order
    slots,           \* GraphIteratorNode: the result slot of each item
    finished,        \* GraphIteratorNode: the sub-runs in completion order
    \* ---- cleanup_html ----
    html_content,    \* argument html_content, as the tags the parser finds
    hpc,             \* "call", "returned", "raised"
    result           \* what cleanup_html returned or raised

chunkerVars == <<text, chunk_size, use_semchunk, tokenizer, cpc, words, widx,
                 chunks, current_chunk, current_length, sem_size>>

graphVars == <<graph, source, state, gpc, current, executed, slots, finished>>

cleanupVars == <<html_content, hpc, result>>

vars == <<chunkerVars, graphVars, cleanupVars>>

-----------------------------------------------------------------------------
(* Bounds *)
MaxLen == 6
MaxBudget == 3
MaxItems == 3
MaxNodes == 3
MaxSteps == 6
MaxTags == 3

Alphabet == {"a", "b", " "}
Tokenizers == {"chars", "weighted", "words"}
Texts == UNION {[1..n -> Alphabet] : n \in 0..MaxLen}

Min(x, y) == IF x <= y THEN x ELSE y

-----------------------------------------------------------------------------
(* Python string helpers *)

IsSpace(c) == c = " "

RECURSIVE SplitAcc(_, _, _)
SplitAcc(s, cur, acc) ==
    IF s = <<>>
    THEN IF cur = <<>> THEN acc ELSE Append(acc, cur)
    ELSE IF IsSpace(Head(s))
         THEN SplitAcc(Tail(s), <<>>, IF cur = <<>> THEN acc ELSE Append(acc, cur))
         ELSE SplitAcc(Tail(s), Append(cur, Head(s)), acc)

\* str.split(): the maximal runs of non-whitespace characters, in order
split(s) == SplitAcc(s, <<>>, <<>>)

RECURSIVE join(_)
\* " ".join(ws)
join(ws) ==
    IF ws = <<>> THEN <<>>
    ELSE IF Len(ws) = 1 THEN ws[1]
    ELSE ws[1] \o <<" ">> \o join(Tail(ws))

RECURSIVE Weight(_)
Weight(s) ==
    IF s = <<>> THEN 0
    ELSE (CASE Head(s) = "a" -> 1 [] Head(s) = "b" -> 2 [] OTHER -> 0) + Weight(Tail(s))

\* The size function: a character count, a per-character weight that charges
\* nothing for whitespace, or a word count.  Each is deterministic,
\* non-negative, monotonic under concatenation and 0 on the empty string.
num_tokens_calculus(s) ==
    CASE tokenizer = "chars" -> Len(s)
      [] tokenizer = "weighted" -> Weight(s)
      [] OTHER -> Len(split(s))

-----------------------------------------------------------------------------
(* split_text_into_chunks *)

\* chunk_size = min(chunk_size, int(chunk_size * 0.9))
SemBudget(size) == Min(size, (size * 9) \div 10)

RECURSIVE Pieces(_, _, _)
\* s cut after every position of cuts, from position from on
Pieces(s, cuts, from) ==
    IF from > Len(s) THEN <<>>
    ELSE LET nxt == IF \E c \in cuts : c >= from
                    THEN CHOOSE c \in cuts : c >= from /\ \A d \in cuts : d >= from => c <= d
                    ELSE Len(s)
         IN <<SubSeq(s, from, nxt)>> \o Pieces(s, cuts, nxt + 1)

\* semchunk.chunk(text, chunk_size, token_counter): a text within the budget
\* comes back whole; a longer one comes back cut into two or more pieces, each
\* within the budget or a single character that cannot be cut further.
chunk(s, size) ==
    IF num_tokens_calculus(s) <= size \/ Len(s) <= 1
    THEN {<<s>>}
    ELSE {Pieces(s, cuts, 1) : cuts \in
            {C \in SUBSET (1..(Len(s) - 1)) :
                /\ C # {}
                /\ \A k \in DOMAIN Pieces(s, C, 1) :
                      \/ num_tokens_calculus(Pieces(s, C, 1)[k]) <= size
                      \/ Len(Pieces(s, C, 1)[k]) = 1}}

\* the comparison off by one: if tokens < chunk_size
WithinBudgetStrict(tokens, size) == tokens < size

\* if tokens <= chunk_size
WithinBudget(tokens, size) == tokens <= size

\* if current_length + word_tokens > chunk_size
Overflows(len, word_tokens, size) == len + word_tokens > size

\* the new chunk opened without charging the word that opens it
StartNewChunkLengthReset(word, word_tokens) ==
    [chunks |-> Append(chunks, join(current_chunk)),
     current_chunk |-> <<word>>,
     current_length |-> 0]

\* chunks.append(" ".join(current_chunk)); current_chunk = [word];
\* current_length = word_tokens
StartNewChunk(word, word_tokens) ==
    [chunks |-> Append(chunks, join(current_chunk)),
     current_chunk |-> <<word>>,
     current_length |-> word_tokens]

\* current_chunk.append(word); current_length += word_tokens
AddToChunk(word, word_tokens) ==
    [chunks |-> chunks,
     current_chunk |-> Append(current_chunk, word),
     current_length |-> current_length + word_tokens]

\* the trailing chunk forgotten after the loop
FlushLastForgotten(cs, cur) == cs

\* if current_chunk: chunks.append(" ".join(current_chunk))
FlushLast(cs, cur) == IF cur # <<>> THEN Append(cs, join(cur)) ELSE cs

ChunkerInit ==
    /\ text \in Texts
    /\ chunk_size \in 1..MaxBudget
    /\ use_semchunk \in BOOLEAN
    /\ tokenizer \in Tokenizers
    /\ cpc = "call"
    /\ words = <<>>
    /\ widx = 0
    /\ chunks = <<>>
    /\ current_chunk = <<>>
    /\ current_length = 0
    /\ sem_size = 0

\* use_semchunk: delegate to semchunk with the reduced budget
SemChunkCall ==
    /\ UNCHANGED <<graphVars, cleanupVars>>
    /\ cpc = "call"
    /\ use_semchunk
    /\ sem_size' = SemBudget(chunk_size)
    /\ chunks' \in chunk(text, SemBudget(chunk_size))
    /\ cpc' = "return"
    /\ UNCHANGED <<text, chunk_size, use_semchunk, tokenizer, words, widx,
                   current_chunk, current_length>>

\* tokens <= chunk_size: return [text]
EarlyReturn ==
    /\ UNCHANGED <<graphVars, cleanupVars>>
    /\ cpc = "call"
    /\ ~use_semchunk
    /\ WithinBudget(num_tokens_calculus(text), chunk_size)
    /\ chunks' = <<text>>
    /\ cpc' = "return"
    /\ UNCHANGED <<text, chunk_size, use_semchunk, tokenizer, words, widx,
                   current_chunk, current_length, sem_size>>

\* chunks = []; current_chunk = []; current_length = 0; words = text.split()
EnterLoop ==
    /\ UNCHANGED <<graphVars, cleanupVars>>
    /\ cpc = "call"
    /\ ~use_semchunk
    /\ ~WithinBudget(num_tokens_calculus(text), chunk_size)
    /\ chunks' = <<>>
    /\ current_chunk' = <<>>
    /\ current_length' = 0
    /\ words' = split(text)
    /\ widx' = 1
    /\ cpc' = "loop"
    /\ UNCHANGED <<text, chunk_size, use_semchunk, tokenizer, sem_size>>

\* one iteration of: for word in words
LoopStep ==
    /\ UNCHANGED <<graphVars, cleanupVars>>
    /\ cpc = "loop"
    /\ widx <= Len(words)
    /\ LET word == words[widx]
           word_tokens == num_tokens_calculus(word)
           nxt == IF Overflows(current_length, word_tokens, chunk_size)
                  THEN StartNewChunk(word, word_tokens)
                  ELSE AddToChunk(word, word_tokens)
       IN /\ chunks' = nxt.chunks
          /\ current_chunk' = nxt.current_chunk
          /\ current_length' = nxt.current_length
    /\ widx' = widx + 1
    /\ UNCHANGED <<text, chunk_size, use_semchunk, tokenizer, cpc, words, sem_size>>

\* after the loop: flush the last chunk and return
FlushAndReturn ==
    /\ UNCHANGED <<graphVars, cleanupVars>>
    /\ cpc = "loop"
    /\ widx > Len(words)
    /\ chunks' = FlushLast(chunks, current_chunk)
    /\ cpc' = "return"
    /\ UNCHANGED <<text, chunk_size, use_semchunk, tokenizer, words, widx,
                   current_chunk, current_length, sem_size>>

ChunkerIdle ==
    /\ text = <<>>
    /\ chunk_size = 1
    /\ use_semchunk = FALSE
    /\ tokenizer = "chars"
    /\ cpc = "idle"
    /\ words = <<>>
    /\ widx = 0
    /\ chunks = <<>>
    /\ current_chunk = <<>>
    /\ current_length = 0
    /\ sem_size = 0

ChunkerNext ==
    \/ SemChunkCall
    \/ EarlyReturn
    \/ EnterLoop
    \/ LoopStep
    \/ FlushAndReturn

-----------------------------------------------------------------------------
(* The multi graphs *)

Range(f) == {f[x] : x \in DOMAIN f}

\* node_config of the ConditionalNode: "condition": "len(results) > 2"
LenThreshold == 2

NoCondition == [key_name |-> "", len_gt |-> 0]

\* A node: its name, its kind, the keys of its '&'-joined input expression,
\* its declared outputs and, for a ConditionalNode, its condition.
Node(name, kind, input, output, condition) ==
    [node_name |-> name, kind |-> kind, input |-> input, output |-> output,
     condition |-> condition]

\* DocumentScraperMultiGraph._create_graph
DocumentScraperMultiGraph ==
    [graph_name |-> "DocumentScraperMultiGraph",
     nodes |-> <<
        Node("GraphIterator", "iterator", <<"user_prompt", "jsons">>,
             <<"results">>, NoCondition),
        Node("MergeAnswers", "merge", <<"user_prompt", "results">>,
             <<"answer">>, NoCondition)>>,
     edges |-> << <<1, 2>> >>,
     entry_point |-> 1]

\* the branches declared in the opposite order
SmartGraphBranchesSwapped ==
    [graph_name |-> "SmartScraperMultiConcatGraph",
     nodes |-> <<
        Node("GraphIteratorNode", "iterator", <<"user_prompt", "urls">>,
             <<"results">>, NoCondition),
        Node("ConditionalNode", "conditional", <<"results">>, <<"results">>,
             [key_name |-> "results", len_gt |-> LenThreshold]),
        Node("MergeAnswersNode", "merge", <<"user_prompt", "results">>,
             <<"answer">>, NoCondition),
        Node("ConcatNode", "concat", <<"results">>, <<"answer">>, NoCondition)>>,
     edges |-> << <<1, 2>>, <<2, 4>>, <<2, 3>> >>,
     entry_point |-> 1]

\* a stray edge from the merge node back to the iterator
SmartGraphBackEdge ==
    [graph_name |-> "SmartScraperMultiConcatGraph",
     nodes |-> <<
        Node("GraphIteratorNode", "iterator", <<"user_prompt", "urls">>,
             <<"results">>, NoCondition),
        Node("ConditionalNode", "conditional", <<"results">>, <<"results">>,
             [key_name |-> "results", len_gt |-> LenThreshold]),
        Node("MergeAnswersNode", "merge", <<"user_prompt", "results">>,
             <<"answer">>, NoCondition),
        Node("ConcatNode", "concat", <<"results">>, <<"answer">>, NoCondition)>>,
     edges |-> << <<1, 2>>, <<2, 3>>, <<2, 4>>, <<3, 1>> >>,
     entry_point |-> 1]

\* SmartScraperMultiConcatGraph._create_graph; of the two edges leaving the
\* ConditionalNode the first is the true branch, the second the false branch
SmartScraperMultiConcatGraph ==
    [graph_name |-> "SmartScraperMultiConcatGraph",
     nodes |-> <<
        Node("GraphIteratorNode", "iterator", <<"user_prompt", "urls">>,
             <<"results">>, NoCondition),
        Node("ConditionalNode", "conditional", <<"results">>, <<"results">>,
             [key_name |-> "results", len_gt |-> LenThreshold]),
        Node("MergeAnswersNode", "merge", <<"user_prompt", "results">>,
             <<"answer">>, NoCondition),
        Node("ConcatNode", "concat", <<"results">>, <<"answer">>, NoCondition)>>,
     edges |-> << <<1, 2>>, <<2, 3>>, <<2, 4>> >>,
     entry_point |-> 1]

\* DocumentScraperMultiGraph.run: inputs = {"user_prompt": ..., "xmls": ...}
DocumentInputs(prompt, src) == [user_prompt |-> prompt, xmls |-> src]

\* SmartScraperMultiConcatGraph.run: inputs = {"user_prompt": ..., "urls": ...}
SmartInputs(prompt, src) == [user_prompt |-> prompt, urls |-> src]

RECURSIVE EdgesOf(_, _, _)
\* the edge list of a graph of plain nodes 1..K where succ[i] is the node
\* after i, 0 for none
EdgesOf(succ, i, K) ==
    IF i > K THEN <<>>
    ELSE (IF succ[i] = 0 THEN <<>> ELSE << <<i, succ[i]>> >>) \o EdgesOf(succ, i + 1, K)

\* any graph of up to MaxNodes plain nodes, each with at most one outgoing
\* edge, entered at its first node
PlainGraphs ==
    UNION {{[graph_name |-> "PlainGraph",
             nodes |-> [i \in 1..K |-> Node(<<"Node", i>>, "plain", <<>>, <<>>, NoCondition)],
             edges |-> EdgesOf(succ, 1, K),
             entry_point |-> 1] : succ \in [1..K -> 0..K]} : K \in 1..MaxNodes}

\* the source list: MaxItems or fewer distinct items
Sources == {[i \in 1..n |-> <<"item", i>>] : n \in 0..MaxItems}

-----------------------------------------------------------------------------
(* The graph engine: BaseGraph.execute and the nodes *)

OutEdges(g, n) == SelectSeq(g.edges, LAMBDA e : e[1] = n)

\* a plain node advances along its outgoing edge, or the run ends
NextNode(g, n) == IF OutEdges(g, n) = <<>> THEN 0 ELSE OutEdges(g, n)[1][2]

\* a ConditionalNode follows its first edge on true, its second on false
ConditionalNext(g, n, outcome) ==
    IF outcome THEN OutEdges(g, n)[1][2] ELSE OutEdges(g, n)[2][2]

\* every key of the node's input expression is in the State
InputsPresent(node, st) == \A k \in Range(node.input) : k \in DOMAIN st

\* the State with key set to v
Put(st, key, v) == [k \in DOMAIN st \cup {key} |-> IF k = key THEN v ELSE st[k]]

\* the ConditionalNode's condition, len(state[key_name]) > len_gt
ConditionHolds(node, st) == Len(st[node.condition.key_name]) > node.condition.len_gt

\* the results taken in the order the sub-runs completed
CollectByCompletion(sl, fin) == [j \in DOMAIN fin |-> sl[fin[j].index]]

\* GraphIteratorNode: the results in the order of the items
CollectResults(sl, fin) == [i \in DOMAIN sl |-> sl[i]]

CurrentNode == graph.nodes[current]

\* the items the running GraphIteratorNode iterates over: its second input
Items == state[CurrentNode.input[2]]

Advance(next) ==
    /\ current' = next
    /\ gpc' = IF next = 0 THEN "done" ELSE "running"

Invoked(kind) ==
    /\ gpc = "running"
    /\ current # 0
    /\ Len(executed) < MaxSteps
    /\ CurrentNode.kind = kind
    /\ InputsPresent(CurrentNode, state)
    /\ executed' = Append(executed, current)

GraphInit ==
    /\ \/ /\ graph \in {DocumentScraperMultiGraph, SmartScraperMultiConcatGraph}
          /\ source \in Sources
       \/ /\ graph \in PlainGraphs
          /\ source = <<>>
    /\ state = <<>>
    /\ gpc = "built"
    /\ current = 0
    /\ executed = <<>>
    /\ slots = <<>>
    /\ finished = <<>>

GraphIdle ==
    /\ graph = [graph_name |-> "None", nodes |-> <<>>, edges |-> <<>>, entry_point |-> 0]
    /\ source = <<>>
    /\ state = <<>>
    /\ gpc = "idle"
    /\ current = 0
    /\ executed = <<>>
    /\ slots = <<>>
    /\ finished = <<>>

\* DocumentScraperMultiGraph.run
RunDocument ==
    /\ UNCHANGED <<chunkerVars, cleanupVars>>
    /\ gpc = "built"
    /\ graph.graph_name = "DocumentScraperMultiGraph"
    /\ state' = DocumentInputs("prompt", source)
    /\ Advance(graph.entry_point)
    /\ UNCHANGED <<graph, source, executed, slots, finished>>

\* SmartScraperMultiConcatGraph.run
RunSmart ==
    /\ UNCHANGED <<chunkerVars, cleanupVars>>
    /\ gpc = "built"
    /\ graph.graph_name = "SmartScraperMultiConcatGraph"
    /\ state' = SmartInputs("prompt", source)
    /\ Advance(graph.entry_point)
    /\ UNCHANGED <<graph, source, executed, slots, finished>>

\* execute of a graph of plain nodes
RunPlain ==
    /\ UNCHANGED <<chunkerVars, cleanupVars>>
    /\ gpc = "built"
    /\ graph.graph_name = "PlainGraph"
    /\ state' = [user_prompt |-> "prompt"]
    /\ Advance(graph.entry_point)
    /\ UNCHANGED <<graph, source, executed, slots, finished>>

\* a node invoked without one of its input keys fails, and the run with it
InvokeMissingInput ==
    /\ UNCHANGED <<chunkerVars, cleanupVars>>
    /\ gpc = "running"
    /\ current # 0
    /\ Len(executed) < MaxSteps
    /\ ~InputsPresent(CurrentNode, state)
    /\ executed' = Append(executed, current)
    /\ gpc' = "failed"
    /\ UNCHANGED <<graph, source, state, current, slots, finished>>

\* GraphIteratorNode: one sub-run per item, each with a result slot
InvokeIterator ==
    /\ UNCHANGED <<chunkerVars, cleanupVars>>
    /\ Invoked("iterator")
    /\ slots' = [i \in DOMAIN Items |-> [item |-> Items[i], status |-> "pending"]]
    /\ finished' = <<>>
    /\ gpc' = "iterating"
    /\ UNCHANGED <<graph, source, state, current>>

\* the sub-run of item i ends with its answer
SubRunAnswers ==
    /\ UNCHANGED <<chunkerVars, cleanupVars>>
    /\ gpc = "iterating"
    /\ \E i \in DOMAIN slots :
          /\ slots[i].status = "pending"
          /\ slots' = [slots EXCEPT ![i].status = "answer"]
          /\ finished' = Append(finished, [index |-> i, status |-> "answer"])
    /\ UNCHANGED <<graph, source, state, gpc, current, executed>>

\* the sub-run of item i fails: an error marker in its slot
SubRunFails ==
    /\ UNCHANGED <<chunkerVars, cleanupVars>>
    /\ gpc = "iterating"
    /\ \E i \in DOMAIN slots :
          /\ slots[i].status = "pending"
          /\ slots' = [slots EXCEPT ![i].status = "error"]
          /\ finished' = Append(finished, [index |-> i, status |-> "error"])
    /\ UNCHANGED <<graph, source, state, gpc, current, executed>>

\* every sub-run has ended: the node writes the list and the run goes on
IteratorReturns ==
    /\ UNCHANGED <<chunkerVars, cleanupVars>>
    /\ gpc = "iterating"
    /\ \A i \in DOMAIN slots : slots[i].status # "pending"
    /\ state' = Put(state, CurrentNode.output[1], CollectResults(slots, finished))
    /\ Advance(NextNode(graph, current))
    /\ UNCHANGED <<graph, source, executed, slots, finished>>

\* ConditionalNode: the State unchanged, the edge chosen by the condition
InvokeConditional ==
    /\ UNCHANGED <<chunkerVars, cleanupVars>>
    /\ Invoked("conditional")
    /\ Advance(ConditionalNext(graph, current, ConditionHolds(CurrentNode, state)))
    /\ UNCHANGED <<graph, source, state, slots, finished>>

\* MergeAnswersNode: the synthesis collaborator answers
InvokeMerge ==
    /\ UNCHANGED <<chunkerVars, cleanupVars>>
    /\ Invoked("merge")
    /\ state' = Put(state, CurrentNode.output[1], "merged")
    /\ Advance(NextNode(graph, current))
    /\ UNCHANGED <<graph, source, slots, finished>>

\* MergeAnswersNode: the synthesis collaborator fails, and the run with it
InvokeMergeFails ==
    /\ UNCHANGED <<chunkerVars, cleanupVars>>
    /\ Invoked("merge")
    /\ gpc' = "failed"
    /\ UNCHANGED <<graph, source, state, current, slots, finished>>

\* ConcatAnswersNode
InvokeConcat ==
    /\ UNCHANGED <<chunkerVars, cleanupVars>>
    /\ Invoked("concat")
    /\ state' = Put(state, CurrentNode.output[1], "concatenated")
    /\ Advance(NextNode(graph, current))
    /\ UNCHANGED <<graph, source, slots, finished>>

\* a plain node
InvokePlain ==
    /\ UNCHANGED <<chunkerVars, cleanupVars>>
    /\ Invoked("plain")
    /\ Advance(NextNode(graph, current))
    /\ UNCHANGED <<graph, source, state, slots, finished>>

GraphNext ==
    \/ RunDocument
    \/ RunSmart
    \/ RunPlain
    \/ InvokeMissingInput
    \/ InvokeIterator
    \/ SubRunAnswers
    \/ SubRunFails
    \/ IteratorReturns
    \/ InvokeConditional
    \/ InvokeMerge
    \/ InvokeMergeFails
    \/ InvokeConcat
    \/ InvokePlain

-----------------------------------------------------------------------------
(* cleanup_html *)

NoAttr == "<absent>"

Tag(name, attr) == [name |-> name, attr |-> attr]

\* The tags BeautifulSoup(html_content, "html.parser") finds, in document
\* order; attr is the title's text, the script's text, the href of an a and
\* the src of an img.  A body tag holds every tag after it.
Tags ==
    {Tag("title", "Example"), Tag("style", NoAttr), Tag("body", NoAttr),
     Tag("script", "window.x = 1;"), Tag("script", NoAttr),
     Tag("a", NoAttr), Tag("a", "/page"), Tag("a", "http://other/x"),
     Tag("a", "http://["),
     Tag("img", NoAttr), Tag("img", "/i.png"), Tag("img", "http://cdn/i.png"),
     Tag("img", "/http.png")}

Documents == UNION {[1..n -> Tags] : n \in 0..MaxTags}

BaseUrl == "http://base"

\* urllib.parse.urljoin raises ValueError("Invalid IPv6 URL") on a netloc
\* with an unmatched bracket
UrlJoinRaises(url) == url = "http://["

IsAbsolute(url) == url \in {"http://other/x", "http://cdn/i.png"}

\* urljoin(base_url, url)
urljoin(base, url) == IF IsAbsolute(url) THEN url ELSE base \o url

\* "http" in image["src"]
ContainsHttp(src) == src \in {"http://cdn/i.png", "/http.png"}

HasTag(doc, name) == \E i \in DOMAIN doc : doc[i].name = name

FirstTag(doc, name) ==
    doc[CHOOSE i \in DOMAIN doc :
            doc[i].name = name /\ \A j \in 1..(i - 1) : doc[j].name # name]

\* title_tag.get_text() if title_tag else ""
TitleOf(doc) == IF HasTag(doc, "title") THEN FirstTag(doc, "title").attr ELSE ""

\* extract_from_script_tags: one entry per script whose text assigns to
\* window.<name> or document.<name>, none for a script without text
extract_from_script_tags(doc) ==
    LET scripts == SelectSeq(doc, LAMBDA t : t.name = "script" /\ t.attr # NoAttr)
    IN [i \in DOMAIN scripts |-> "Dynamic data - x: 1"]

\* for tag in soup.find_all("style"): tag.extract()
WithoutStyle(doc) == SelectSeq(doc, LAMBDA t : t.name # "style")

\* soup.find_all("a", href=True)
Links(doc) == SelectSeq(doc, LAMBDA t : t.name = "a" /\ t.attr # NoAttr)

\* the images with a src attribute
Images(doc) == SelectSeq(doc, LAMBDA t : t.name = "img" /\ t.attr # NoAttr)

\* the urls cleanup_html hands to urljoin
JoinedUrls(doc) ==
    {t.attr : t \in Range(Links(doc))}
        \cup {t.attr : t \in {u \in Range(Images(doc)) : ~ContainsHttp(u.attr)}}

LinkUrls(doc, base) == [i \in DOMAIN Links(doc) |-> urljoin(base, Links(doc)[i].attr)]

ImageUrls(doc, base) ==
    [i \in DOMAIN Images(doc) |->
        IF ~ContainsHttp(Images(doc)[i].attr)
        THEN urljoin(base, Images(doc)[i].attr)
        ELSE Images(doc)[i].attr]

\* soup.find("body"): the first body tag with what it holds
BodyOf(doc) ==
    LET i == CHOOSE k \in DOMAIN doc :
                doc[k].name = "body" /\ \A j \in 1..(k - 1) : doc[j].name # "body"
    IN SubSeq(doc, i, Len(doc))

\* minify(str(body_content)): the tags of the body; the white space and the
\* comments minify removes are not part of a document here
minify(body) == body

\* if body_content: a Tag is true whatever it holds
BodyFound(doc) == HasTag(doc, "body")

\* no body: an empty result instead of the error
cleanup_html_silent(doc, base) ==
    IF \E u \in JoinedUrls(doc) : UrlJoinRaises(u)
    THEN [kind |-> "raise", error |-> "ValueError: Invalid IPv6 URL"]
    ELSE [kind |-> "return",
          title |-> TitleOf(doc),
          minimized_body |-> IF BodyFound(WithoutStyle(doc))
                             THEN minify(BodyOf(WithoutStyle(doc))) ELSE <<>>,
          link_urls |-> LinkUrls(WithoutStyle(doc), base),
          image_urls |-> ImageUrls(WithoutStyle(doc), base),
          script_content |-> extract_from_script_tags(doc)]

\* cleanup_html(html_content, base_url): what it returns or raises
cleanup_html(doc, base) ==
    IF \E u \in JoinedUrls(doc) : UrlJoinRaises(u)
    THEN [kind |-> "raise", error |-> "ValueError: Invalid IPv6 URL"]
    ELSE IF BodyFound(WithoutStyle(doc))
    THEN [kind |-> "return",
          title |-> TitleOf(doc),
          minimized_body |-> minify(BodyOf(WithoutStyle(doc))),
          link_urls |-> LinkUrls(WithoutStyle(doc), base),
          image_urls |-> ImageUrls(WithoutStyle(doc), base),
          script_content |-> extract_from_script_tags(doc)]
    ELSE [kind |-> "raise", error |-> "ValueError: No HTML body content found"]

CleanupInit ==
    /\ html_content \in Documents
    /\ hpc = "call"
    /\ result = [kind |-> "none"]

CleanupIdle ==
    /\ html_content = <<>>
    /\ hpc = "idle"
    /\ result = [kind |-> "none"]

\* the call returns its tuple
CleanupReturns ==
    /\ UNCHANGED <<chunkerVars, graphVars>>
    /\ hpc = "call"
    /\ cleanup_html(html_content, BaseUrl).kind = "return"
    /\ result' = cleanup_html(html_content, BaseUrl)
    /\ hpc' = "returned"
    /\ UNCHANGED html_content

\* the call raises
CleanupRaises ==
    /\ UNCHANGED <<chunkerVars, graphVars>>
    /\ hpc = "call"
    /\ cleanup_html(html_content, BaseUrl).kind = "raise"
    /\ result' = cleanup_html(html_content, BaseUrl)
    /\ hpc' = "raised"
    /\ UNCHANGED html_content

CleanupNext ==
    \/ CleanupReturns
    \/ CleanupRaises

-----------------------------------------------------------------------------
(* Specifications *)

ChunkerStart == ChunkerInit /\ GraphIdle /\ CleanupIdle

GraphStart == GraphInit /\ ChunkerIdle /\ CleanupIdle

CleanupStart == CleanupInit /\ ChunkerIdle /\ GraphIdle

SpecChunker == ChunkerStart /\ [][ChunkerNext]_vars

SpecGraph == GraphStart /\ [][GraphNext]_vars

\* the engine invokes the next node as soon as the last one returned, and
\* every sub-run ends (with an answer, an error or its collaborator's timeout)
FairSpecGraph == GraphStart /\ [][GraphNext]_vars /\ WF_vars(GraphNext)

SpecCleanup == CleanupStart /\ [][CleanupNext]_vars

-----------------------------------------------------------------------------
(* Properties of split_text_into_chunks *)

Returned == cpc = "return"
Greedy == ~use_semchunk

RECURSIVE FlattenSplit(_)
\* the words of the chunks, chunk after chunk
FlattenSplit(cs) ==
    IF cs = <<>> THEN <<>> ELSE split(Head(cs)) \o FlattenSplit(Tail(cs))

Oversized(w) == num_tokens_calculus(w) > chunk_size

\* C1: every chunk returned by greedy word-packing measures at most
\* chunk_size, unless it is exactly one word that itself measures more.
C1_ChunkWithinBudget ==
    (Returned /\ Greedy) =>
        \A k \in DOMAIN chunks :
            \/ num_tokens_calculus(chunks[k]) <= chunk_size
            \/ /\ Len(split(chunks[k])) = 1
               /\ Oversized(split(chunks[k])[1])

\* C2: the chunks of greedy word-packing, split on whitespace in order, are
\* exactly the words of the text in their order.
C2_RoundTrip ==
    (Returned /\ Greedy) => FlattenSplit(chunks) = split(text)

\* C2 witness: a text of three or more words, not normalised (its words are
\* not joined by single spaces), packed into two or more chunks.
C2_Witness ==
    /\ Returned /\ Greedy
    /\ Len(split(text)) >= 3
    /\ Len(chunks) >= 2
    /\ join(split(text)) # text

C8_OversizedWordAlone ==
    (Returned /\ Greedy) =>
        \A i \in DOMAIN split(text) :
            Oversized(split(text)[i]) =>
                \E k \in DOMAIN chunks :
                    /\ chunks[k] = split(text)[i]
                    /\ Len(FlattenSplit(SubSeq(chunks, 1, k - 1))) = i - 1

\* C8 witness: an oversized word strictly between two other words.
C8_Witness ==
    /\ Returned /\ Greedy
    /\ \E i \in DOMAIN split(text) :
          /\ 1 < i /\ i < Len(split(text))
          /\ Oversized(split(text)[i])
          /\ ~Oversized(split(text)[i - 1])
          /\ ~Oversized(split(text)[i + 1])

\* C9: when the text measures more than chunk_size, no chunk of greedy
\* word-packing is without a word, so there are at most as many chunks as
\* words.
C9_NoEmptyChunk ==
    (Returned /\ Greedy /\ num_tokens_calculus(text) > chunk_size) =>
        /\ \A k \in DOMAIN chunks : split(chunks[k]) # <<>>
        /\ Len(chunks) <= Len(split(text))

-----------------------------------------------------------------------------
(* Properties of the multi graphs *)

IsSmart == graph.graph_name = "SmartScraperMultiConcatGraph"
IsDocument == graph.graph_name = "DocumentScraperMultiGraph"
IsPlain == graph.graph_name = "PlainGraph"

Halted == gpc \in {"done", "failed"}

\* the names of the nodes invoked so far, in order
ExecutedNames == [i \in DOMAIN executed |-> graph.nodes[executed[i]].node_name]

Ran(name) == \E i \in DOMAIN executed : ExecutedNames[i] = name

ResultsWritten == gpc # "idle" /\ "results" \in DOMAIN state

Succs(g, n) == {e[2] : e \in {d \in Range(g.edges) : d[1] = n}}

RECURSIVE ReachFrom(_, _, _)
\* the nodes reached from S along at most k edges
ReachFrom(g, S, k) ==
    IF k = 0 THEN S
    ELSE ReachFrom(g, S \cup UNION {Succs(g, n) : n \in S}, k - 1)

\* no node reachable from the entry node lies on a cycle
AcyclicFromEntry(g) ==
    \A n \in ReachFrom(g, {g.entry_point}, Len(g.nodes)) :
        n \notin ReachFrom(g, Succs(g, n), Len(g.nodes))

\* C4: in SmartScraperMultiConcatGraph the ConditionalNode is followed by
\* MergeAnswersNode when the results list holds more than 2 items and by
\* ConcatNode otherwise; a finished run has invoked exactly one of the two.
C4_ConditionalRouting ==
    IsSmart =>
        /\ Ran("ConditionalNode") =>
              /\ ResultsWritten
              /\ Len(state["results"]) = Len(source)
              /\ LET chosen == IF Len(state["results"]) > 2
                               THEN "MergeAnswersNode" ELSE "ConcatNode"
                 IN /\ gpc = "running" => CurrentNode.node_name = chosen
                    /\ \A i \in DOMAIN executed :
                          (ExecutedNames[i] = "ConditionalNode" /\ i < Len(executed))
                              => ExecutedNames[i + 1] = chosen
        /\ ~(Ran("MergeAnswersNode") /\ Ran("ConcatNode"))
        /\ Halted => (Ran("MergeAnswersNode") \/ Ran("ConcatNode"))

\* C4 witness: a finished run over 3 items that went through MergeAnswersNode.
C4_Witness ==
    /\ IsSmart /\ gpc = "done"
    /\ Len(state["results"]) = 3
    /\ ExecutedNames = <<"GraphIteratorNode", "ConditionalNode", "MergeAnswersNode">>

\* C5: the results list the GraphIteratorNode writes has one entry per item,
\* entry i being the outcome of the sub-run of item i, whatever the order in
\* which the sub-runs ended and whichever failed; no sub-run changes another
\* one's slot, and no failure keeps the list from being written.
C5_IteratorAlignment ==
    /\ ResultsWritten =>
          /\ Len(state["results"]) = Len(source)
          /\ \A i \in DOMAIN source :
                /\ state["results"][i].item = source[i]
                /\ \E j \in DOMAIN finished :
                      /\ finished[j].index = i
                      /\ finished[j].status = state["results"][i].status
    /\ gpc = "iterating" =>
          \A j \in DOMAIN finished :
              /\ slots[finished[j].index].status = finished[j].status
              /\ slots[finished[j].index].item = source[finished[j].index]
    /\ (gpc = "failed" /\ CurrentNode.kind = "iterator") =>
          (finished = <<>> /\ ~InputsPresent(CurrentNode, state))
    /\ (IsSmart /\ Halted) => ResultsWritten

\* C5 witness: 3 items, the last sub-run ended first, the second one failed
\* and the others answered.
C5_Witness ==
    /\ ResultsWritten
    /\ Len(source) = 3
    /\ finished[1].index = 3
    /\ state["results"][1].status = "answer"
    /\ state["results"][2].status = "error"
    /\ state["results"][3].status = "answer"

C6_StepBound ==
    /\ (AcyclicFromEntry(graph) /\ gpc # "idle") =>
          /\ Len(executed) <= Len(graph.nodes)
          /\ \A i, j \in DOMAIN executed : executed[i] = executed[j] => i = j
          /\ gpc = "done" =>
                /\ executed # <<>>
                /\ OutEdges(graph, executed[Len(executed)]) = <<>>
    /\ IsDocument => Len(executed) <= 2
    /\ IsSmart => Len(executed) <= 4

\* C6: on a graph with no cycle reachable from the entry node a run invokes
\* no node twice and at most as many nodes as the graph has (2 for
\* DocumentScraperMultiGraph, 4 for SmartScraperMultiConcatGraph), it ends
\* only at a node without an outgoing edge or where a node fails, and it
\* does end.
C6_BoundedTermination ==
    /\ []C6_StepBound
    /\ <>(AcyclicFromEntry(graph) => Halted)

\* C6 witness: a chain of three or more plain nodes run to its end, every
\* node invoked.
C6_Witness ==
    /\ IsPlain /\ AcyclicFromEntry(graph)
    /\ gpc = "done"
    /\ Len(graph.nodes) >= 3
    /\ Len(executed) = Len(graph.nodes)

\* C10: whenever a node of DocumentScraperMultiGraph or of
\* SmartScraperMultiConcatGraph is about to be invoked, every key of its
\* input expression is in the State.
C10_InputsPresent ==
    (gpc = "running" /\ current # 0 /\ ~IsPlain) => InputsPresent(CurrentNode, state)

-----------------------------------------------------------------------------
(* Properties of cleanup_html *)

FivePart(r) ==
    /\ DOMAIN r = {"kind", "title", "minimized_body", "link_urls", "image_urls",
                   "script_content"}
    /\ r.kind = "return"
    /\ r.minimized_body # <<>>

UrlsAccepted(doc) == \A u \in JoinedUrls(doc) : ~UrlJoinRaises(u)

=============================================================================
